---- MODULE Spec2Model ----
(***************************************************************************)
(* A model of WeiweiAi/dataPlot:                                           *)
(*   src/dataPlot.py  plot_line2D (data resolution, rendering, saving)     *)
(*   src/manData.py   combine_csv_files (CSV row extraction)               *)
(* plot_line2D is one sequential call, cut at its loops into steps.        *)
(* combine_csv_files is one step for the removal of the destination and    *)
(* one step per range descriptor.                                          *)
(*                                                                         *)
(* line_cfg and plot_cfg are dicts iterated in insertion order: they are   *)
(* sequences here, the key of an entry being its position.                 *)
(* SpecResolve, SpecRender and SpecSave run plot_line2D on three families  *)
(* of arguments; SpecCombine runs combine_csv_files.                       *)
(***************************************************************************)
EXTENDS Integers, Sequences, FiniteSets, TLC

\* Bounds of the inputs.
MaxLines == 2    \* entries of line_cfg
MaxLen == 2      \* lines of a source file of combine_csv_files
MaxRanges == 2   \* range descriptors of one combine_csv_files call

VARIABLES
    fig_cfg, plot_cfg, line_cfg,     \* the arguments of plot_line2D
    line_cfg0,                       \* history: line_cfg as passed by the caller
    pc, status,                      \* position in plot_line2D, exception raised
    li,                              \* index of the entry the resolution loop is at
    nfiles, data_files, data_file_names,
    reads,                           \* history: the pd.read_csv calls, in order
    axes,                            \* the Axes of axs.flatten()
    handles,                         \* handles of the subplot being rendered
    pi, lj,                          \* subplot index, index in its 'line' list
    n_artists,                       \* Line2D artists created so far
    fig_legend,                      \* the figure legend
    saved,                           \* the plt.savefig calls, in order
    shown,                           \* plt.show() was called
    fs,                              \* the file system of combine_csv_files
    fs0,                             \* history: the file system before the call
    new_csv_file,                    \* its destination argument
    cpc, cstatus,                    \* position in combine_csv_files, exception
    n_ranges, k,                     \* len(csv_files), ranges processed so far
    last,                            \* history: the range processed last
    written,                         \* history: text written by this call
    expected                         \* history: lines the ranges select

plotVars == <<fig_cfg, plot_cfg, line_cfg, line_cfg0, pc, status, li, nfiles,
              data_files, data_file_names, reads, axes, handles, pi, lj,
              n_artists, fig_legend, saved, shown>>
combVars == <<fs, fs0, new_csv_file, cpc, cstatus, n_ranges, k, last, written,
              expected>>
vars == <<plotVars, combVars>>

----------------------------------------------------------------------------
\* Python dictionaries: functions on the set of their keys.

EmptyDict == <<>>

Get(d, key, default) == IF key \in DOMAIN d THEN d[key] ELSE default

Put(d, key, v) == [x \in DOMAIN d \cup {key} |-> IF x = key THEN v ELSE d[x]]

\* Python values carry their type: a str never equals an int.
PyStr(s) == <<"str", s>>
PyInt(n) == <<"int", n>>
PyEq(a, b) == a[1] = b[1] /\ a[2] = b[2]

\* `x in d` for a dict d with int keys: it tests the KEYS of d.
PyInDict(x, d) == \E key \in DOMAIN d : PyEq(PyInt(key), x)

\* Truth value of dict.get(key, False) for a str-valued key.
Truthy(d, key) == key \in DOMAIN d /\ d[key] # ""

NoError == [kind |-> "", line |-> 0, axis |-> ""]

\* combine_csv_files: no range was processed yet
NoRange == [valid |-> FALSE, ok |-> FALSE, src |-> "", start |-> 0, end |-> 0,
            step |-> 1, lines |-> <<>>, chunk |-> <<>>]

----------------------------------------------------------------------------
\* plot_line2D: data resolution (src/dataPlot.py 173-211)

\* The table pd.read_csv returns for a path, and one of its columns.
Table(path) == <<"table", path>>
Column(table, col) == <<"col", table[2], col>>

\* line 178 / 196: `line_data['xdata'][0] not in data_file_names`;
\* data_file_names maps the integers 1..nfiles to paths.
NotLoaded(path, names) == ~PyInDict(PyStr(path), names)

\* AxisBranch without its `elif 'xdata_array' in line_data: pass`.
AxisBranchNoArray(ld, ref, arr) ==
    IF ref \in DOMAIN ld THEN "ref" ELSE "missing"

\* AxisBranch without its `raise ValueError`.
AxisBranchNoRaise(ld, ref, arr) ==
    IF ref \in DOMAIN ld THEN "ref" ELSE "array"

\* lines 177, 190, 192 (195, 208, 210): which branch an axis takes.
AxisBranch(ld, ref, arr) ==
    IF ref \in DOMAIN ld THEN "ref"
    ELSE IF arr \in DOMAIN ld THEN "array"
    ELSE "missing"

\* One axis of one entry. st = [ld, nfiles, files, names, reads, err];
\* out is what storage answers: "ok", "FileNotFoundError" (pd.read_csv) or
\* "KeyError" (the column lookup).
ResolveAxis(st, ref, arr, line, out) ==
    IF st.err.kind # "" THEN st
    ELSE LET ld == st.ld
             raise(kind) == [kind |-> kind, line |-> line, axis |-> ref]
         IN
         CASE AxisBranch(ld, ref, arr) = "ref" ->
                LET path == ld[ref][1]
                    col  == ld[ref][2]
                IN  IF NotLoaded(path, st.names)
                    THEN LET n == st.nfiles + 1
                             rd == Append(st.reads, [path |-> path, line |-> line, axis |-> ref])
                         IN  IF out = "FileNotFoundError"
                             THEN [st EXCEPT !.nfiles = n, !.reads = rd,
                                             !.err = raise("FileNotFoundError")]
                             ELSE IF out = "KeyError"
                             THEN [st EXCEPT !.nfiles = n, !.reads = rd,
                                             !.files = Put(@, n, Table(path)),
                                             !.names = Put(@, n, path),
                                             !.err = raise("KeyError")]
                             ELSE [st EXCEPT !.nfiles = n, !.reads = rd,
                                             !.files = Put(@, n, Table(path)),
                                             !.names = Put(@, n, path),
                                             !.ld = Put(ld, arr, Column(Table(path), col))]
                    ELSE LET hit == {key \in DOMAIN st.names : st.names[key] = path}
                             first == CHOOSE key \in hit : \A o \in hit : key <= o
                         IN  IF hit = {} THEN st
                             ELSE IF out = "KeyError"
                             THEN [st EXCEPT !.err = raise("KeyError")]
                             ELSE [st EXCEPT !.ld = Put(ld, arr, Column(st.files[first], col))]
           [] AxisBranch(ld, ref, arr) = "array" -> st
           [] OTHER -> [st EXCEPT !.err = raise("ValueError")]

Outcomes == {"ok", "FileNotFoundError", "KeyError"}

----------------------------------------------------------------------------
\* plot_line2D: the call

\* subplots_ajdust, line 59: the grid; line 62: squeeze=False, rows*cols Axes.
NumAxes(cfg) == Get(cfg, "num_rows", 1) * Get(cfg, "num_cols", 1)

NoLegend == [shown |-> FALSE, handles |-> <<>>]
NewAxes == [lines |-> <<>>, twins |-> <<>>, legend |-> NoLegend]

\* lines 170-175
Begin ==
    /\ pc = "call"
    /\ axes' = [a \in 1..NumAxes(fig_cfg) |-> NewAxes]
    /\ data_files' = EmptyDict
    /\ data_file_names' = EmptyDict
    /\ nfiles' = 0
    /\ li' = 1
    /\ pc' = IF Len(line_cfg) > 0 THEN "resolve"
             ELSE IF Len(plot_cfg) > 0 THEN "subplot" ELSE "save"
    /\ UNCHANGED <<fig_cfg, plot_cfg, line_cfg, line_cfg0, status, reads, handles,
                   pi, lj, n_artists, fig_legend, saved, shown>>

\* lines 176-211, one iteration of the loop over line_cfg.items()
ResolveLine ==
    /\ pc = "resolve"
    /\ li <= Len(line_cfg)
    /\ \E outx \in Outcomes, outy \in Outcomes :
         LET st0 == [ld |-> line_cfg[li], nfiles |-> nfiles, files |-> data_files,
                     names |-> data_file_names, reads |-> reads, err |-> NoError]
             st1 == ResolveAxis(st0, "xdata", "xdata_array", li, outx)
             st2 == ResolveAxis(st1, "ydata", "ydata_array", li, outy)
         IN  /\ line_cfg' = [line_cfg EXCEPT ![li] = st2.ld]
             /\ nfiles' = st2.nfiles
             /\ data_files' = st2.files
             /\ data_file_names' = st2.names
             /\ reads' = st2.reads
             /\ status' = st2.err
             /\ pc' = IF st2.err.kind # "" THEN "failed"
                      ELSE IF li < Len(line_cfg) THEN "resolve"
                      ELSE IF Len(plot_cfg) > 0 THEN "subplot" ELSE "save"
             /\ li' = IF st2.err.kind # "" THEN li ELSE li + 1
    /\ UNCHANGED <<fig_cfg, plot_cfg, line_cfg0, axes, handles, pi, lj, n_artists,
                   fig_legend, saved, shown>>

----------------------------------------------------------------------------
\* plot_line2D: rendering (src/dataPlot.py 213-264)

\* line 238: plot_data.get('line', [])
LineList(plot_data) == Get(plot_data, "line", <<>>)

\* lines 241-254: the line goes to a secondary axis made by ax.twinx() when
\* the entry has a true 'rightYAxis', to the primary axis otherwise.
DrawOn(ax, right, lineId, plot, artistId) ==
    IF right
    THEN LET ax2 == Len(ax.twins) + 1
             h == [id |-> artistId, line_id |-> lineId, plot |-> plot, twin |-> ax2]
         IN  [ax |-> [ax EXCEPT !.twins = Append(@, <<h>>)], h |-> h]
    ELSE LET h == [id |-> artistId, line_id |-> lineId, plot |-> plot, twin |-> 0]
         IN  [ax |-> [ax EXCEPT !.lines = Append(@, h)], h |-> h]

\* Axes.legend() without handles: the labelled artists of that Axes, in the
\* order they were added (every line of the model carries a label).
AutoLegend(ax) == [shown |-> TRUE, handles |-> ax.lines]

\* lines 260-264
LegendOf(ax, plot_data, hs) ==
    IF "legend" \in DOMAIN plot_data
    THEN LET handles_list == [n \in 1..Len(plot_data["legend"]) |-> hs[plot_data["legend"][n]]]
             first == [shown |-> TRUE, handles |-> handles_list]
         IN  IF "bbox_to_anchor" \in DOMAIN plot_data
             THEN AutoLegend([ax EXCEPT !.legend = first])
             ELSE first
    ELSE ax.legend

\* lines 213-237: the next subplot; axs.flatten()[plot_id-1]; handles = {}
BeginSubplot ==
    /\ pc = "subplot"
    /\ pi <= Len(plot_cfg)
    /\ IF pi > Len(axes)
       THEN /\ pc' = "failed"
            /\ status' = [kind |-> "IndexError", line |-> 0, axis |-> ""]
            /\ UNCHANGED <<handles, lj>>
       ELSE /\ handles' = EmptyDict
            /\ lj' = 1
            /\ pc' = IF Len(LineList(plot_cfg[pi])) > 0 THEN "draw" ELSE "legend"
            /\ UNCHANGED status
    /\ UNCHANGED <<fig_cfg, plot_cfg, line_cfg, line_cfg0, li, nfiles, data_files,
                   data_file_names, reads, axes, pi, n_artists, fig_legend, saved, shown>>

\* lines 238-254, one iteration of the loop over the subplot's 'line' list
DrawLine ==
    /\ pc = "draw"
    /\ lj <= Len(LineList(plot_cfg[pi]))
    /\ LET line_id == LineList(plot_cfg[pi])[lj]
       IN  IF line_id \notin DOMAIN line_cfg
           THEN /\ pc' = "failed"
                /\ status' = [kind |-> "KeyError", line |-> line_id, axis |-> ""]
                /\ UNCHANGED <<axes, handles, lj, n_artists>>
           ELSE IF ~({"xdata_array", "ydata_array"} \subseteq DOMAIN line_cfg[line_id])
           THEN /\ pc' = "failed"
                /\ status' = [kind |-> "KeyError", line |-> line_id, axis |-> "array"]
                /\ UNCHANGED <<axes, handles, lj, n_artists>>
           ELSE LET d == DrawOn(axes[pi], Truthy(line_cfg[line_id], "rightYAxis"),
                                line_id, pi, n_artists + 1)
                IN  /\ axes' = [axes EXCEPT ![pi] = d.ax]
                    /\ handles' = Put(handles, line_id, d.h)
                    /\ n_artists' = n_artists + 1
                    /\ lj' = lj + 1
                    /\ pc' = IF lj < Len(LineList(plot_cfg[pi])) THEN "draw" ELSE "legend"
                    /\ UNCHANGED status
    /\ UNCHANGED <<fig_cfg, plot_cfg, line_cfg, line_cfg0, li, nfiles, data_files,
                   data_file_names, reads, pi, fig_legend, saved, shown>>

\* lines 255-264: the y-limits are restored, then the subplot's legend
FinishSubplot ==
    /\ pc = "legend"
    /\ LET plot_data == plot_cfg[pi]
       IN  IF /\ "legend" \in DOMAIN plot_data
              /\ \E n \in 1..Len(plot_data["legend"]) : plot_data["legend"][n] \notin DOMAIN handles
           THEN /\ pc' = "failed"
                /\ status' = [kind |-> "KeyError", line |-> 0, axis |-> "legend"]
                /\ UNCHANGED <<axes, pi>>
           ELSE /\ axes' = [axes EXCEPT ![pi].legend = LegendOf(axes[pi], plot_data, handles)]
                /\ pi' = pi + 1
                /\ pc' = IF pi < Len(plot_cfg) THEN "subplot" ELSE "save"
                /\ UNCHANGED status
    /\ UNCHANGED <<fig_cfg, plot_cfg, line_cfg, line_cfg0, li, nfiles, data_files,
                   data_file_names, reads, handles, lj, n_artists, fig_legend, saved, shown>>

----------------------------------------------------------------------------
\* plot_line2D: figure legend and output (src/dataPlot.py 265-277)

\* Strings are sequences of pieces; + is concatenation.
Png == <<"png">>

\* line 272 / 275
FullPath(cfg, format) ==
    Get(cfg, "file_path", <<"./">>) \o Get(cfg, "filename", <<"new_fig">>) \o <<".">> \o format

\* NeedsPngCopy without its test of the format.
NeedsPngCopyAlways(cfg) == TRUE

\* line 274
NeedsPngCopy(cfg) == Get(cfg, "fig_format", Png) # Png

\* lines 272-276
SaveFig(cfg) ==
    LET full_path == FullPath(cfg, Get(cfg, "fig_format", Png))
    IN  IF NeedsPngCopy(cfg)
        THEN <<full_path, FullPath(cfg, Png)>>
        ELSE <<full_path>>

RECURSIVE FigLegendLines(_, _)
\* lines 267-268: the handles of the listed Axes, concatenated
FigLegendLines(ids, axs) ==
    IF ids = <<>> THEN <<>>
    ELSE axs[Head(ids)].lines \o FigLegendLines(Tail(ids), axs)

\* lines 265-277
Save ==
    /\ pc = "save"
    /\ LET ids == Get(fig_cfg, "legend_id", <<>>)
       IN  IF \E n \in 1..Len(ids) : ids[n] \notin 1..Len(axes)
           THEN /\ pc' = "failed"
                /\ status' = [kind |-> "IndexError", line |-> 0, axis |-> "legend_id"]
                /\ UNCHANGED <<fig_legend, saved, shown>>
           ELSE /\ fig_legend' = IF ids # <<>>
                                 THEN [shown |-> TRUE, handles |-> FigLegendLines(ids, axes)]
                                 ELSE fig_legend
                /\ saved' = saved \o SaveFig(fig_cfg)
                /\ shown' = TRUE
                /\ pc' = "done"
                /\ UNCHANGED status
    /\ UNCHANGED <<fig_cfg, plot_cfg, line_cfg, line_cfg0, li, nfiles, data_files,
                   data_file_names, reads, axes, handles, pi, lj, n_artists>>

NextPlot ==
    \/ Begin /\ UNCHANGED combVars
    \/ ResolveLine /\ UNCHANGED combVars
    \/ BeginSubplot /\ UNCHANGED combVars
    \/ DrawLine /\ UNCHANGED combVars
    \/ FinishSubplot /\ UNCHANGED combVars
    \/ Save /\ UNCHANGED combVars

----------------------------------------------------------------------------
\* Inputs of plot_line2D

Paths == {"a.csv", "b.csv"}

\* An array the caller computed beforehand.
UserArray == <<"user", "given", "array">>

Injective(s) == \A m, n \in DOMAIN s : m # n => s[m] # s[n]

\* What an entry can say about one axis: nothing, a (file, column) reference,
\* a precomputed array, or both.
AxisOptions(ref, arr, col) ==
    {EmptyDict}
    \cup {ref :> <<p, col>> : p \in Paths}
    \cup {arr :> UserArray}
    \cup {(ref :> <<p, col>>) @@ (arr :> UserArray) : p \in Paths}

ResolveEntries ==
    {x @@ y : x \in AxisOptions("xdata", "xdata_array", "x"),
              y \in AxisOptions("ydata", "ydata_array", "y")}

RenderEntries ==
    {("xdata" :> <<"a.csv", "x">>) @@ ("ydata" :> <<"a.csv", "y">>) @@ r :
        r \in {EmptyDict, "rightYAxis" :> "%", "rightYAxis" :> ""}}

Iota(n) == [m \in 1..n |-> m]

\* Lists of distinct line identifiers.
IdLists == {s \in UNION {[1..m -> 1..MaxLines] : m \in 0..MaxLines} : Injective(s)}

PlotDatas ==
    {("line" :> l) @@ g @@ b :
        l \in IdLists,
        g \in {EmptyDict} \cup {"legend" :> ids : ids \in IdLists},
        b \in {EmptyDict, "bbox_to_anchor" :> <<1, 1>>}}

SaveCfgs ==
    {a @@ b @@ c @@ d :
        a \in {EmptyDict, "file_path" :> <<"./">>, "file_path" :> <<"out/">>},
        b \in {EmptyDict, "filename" :> <<"new_fig">>, "filename" :> <<"fig1">>},
        c \in {EmptyDict, "fig_format" :> Png, "fig_format" :> <<"pdf">>,
               "fig_format" :> <<"svg">>},
        d \in {EmptyDict, "legend_id" :> <<1>>}}

CombIdle ==
    /\ fs = EmptyDict
    /\ fs0 = EmptyDict
    /\ new_csv_file = ""
    /\ cpc = "idle"
    /\ cstatus = ""
    /\ n_ranges = 0
    /\ k = 0
    /\ last = NoRange
    /\ written = <<>>
    /\ expected = <<>>

PlotStart ==
    /\ line_cfg0 = line_cfg
    /\ pc = "call"
    /\ status = NoError
    /\ li = 1
    /\ nfiles = 0
    /\ data_files = EmptyDict
    /\ data_file_names = EmptyDict
    /\ reads = <<>>
    /\ axes = <<>>
    /\ handles = EmptyDict
    /\ pi = 1
    /\ lj = 1
    /\ n_artists = 0
    /\ fig_legend = NoLegend
    /\ saved = <<>>
    /\ shown = FALSE

\* Any entries; one subplot that draws every line and lists it in the legend.
InitResolve ==
    /\ line_cfg \in UNION {[1..m -> ResolveEntries] : m \in 0..MaxLines}
    /\ fig_cfg = EmptyDict
    /\ plot_cfg = <<("line" :> Iota(Len(line_cfg))) @@ ("legend" :> Iota(Len(line_cfg)))>>
    /\ PlotStart
    /\ CombIdle

\* Entries that resolve; a 1 x 2 grid, any one or two subplot configurations.
InitRender ==
    /\ line_cfg \in [1..MaxLines -> RenderEntries]
    /\ fig_cfg = ("num_rows" :> 1) @@ ("num_cols" :> 2)
    /\ plot_cfg \in UNION {[1..m -> PlotDatas] : m \in 1..2}
    /\ PlotStart
    /\ CombIdle

\* One line on one subplot; any output configuration.
InitSave ==
    /\ line_cfg = <<("xdata" :> <<"a.csv", "x">>) @@ ("ydata" :> <<"a.csv", "y">>)>>
    /\ fig_cfg \in SaveCfgs
    /\ plot_cfg = <<("line" :> <<1>>) @@ ("legend" :> <<1>>)>>
    /\ PlotStart
    /\ CombIdle

SpecResolve == InitResolve /\ [][NextPlot]_vars
SpecRender == InitRender /\ [][NextPlot]_vars
SpecSave == InitSave /\ [][NextPlot]_vars

----------------------------------------------------------------------------
\* Properties of plot_line2D

AxisKeys == {<<"xdata", "xdata_array">>, <<"ydata", "ydata_array">>}

ReadsFor(line, ref) == {n \in DOMAIN reads : reads[n].line = line /\ reads[n].axis = ref}
ReadsOf(path) == {n \in DOMAIN reads : reads[n].path = path}

\* The paths the entries as passed refer to.
ReferencedPaths ==
    UNION {{line_cfg0[n][a[1]][1] : a \in {b \in AxisKeys : b[1] \in DOMAIN line_cfg0[n]}} :
           n \in DOMAIN line_cfg0}

Resolved == pc \in {"subplot", "draw", "legend", "save", "done"}

\* C1: during one plot_line2D call no path is read from storage twice, and
\* once the resolution pass is over every referenced path was read exactly once.
C1_EachPathReadOnce ==
    /\ \A p \in Paths : Cardinality(ReadsOf(p)) <= 1
    /\ Resolved => \A p \in ReferencedPaths : Cardinality(ReadsOf(p)) = 1

\* C2 as stated: an axis that carries a precomputed array is never resolved,
\* whether or not the entry also carries a reference for it.
C2_ArrayAlwaysSkipped ==
    \A n \in DOMAIN line_cfg0 : \A a \in AxisKeys :
        a[2] \in DOMAIN line_cfg0[n] =>
            /\ ReadsFor(n, a[1]) = {}
            /\ line_cfg[n][a[2]] = line_cfg0[n][a[2]]

\* C2 amended: an axis that carries a precomputed array and no reference is
\* skipped (no read on its behalf, the array unchanged, no configuration
\* error); an axis that carries a reference is resolved from its file even
\* when it also carries an array, which the file's column then replaces.
C2_ArrayOnlySkipped ==
    \A n \in DOMAIN line_cfg0 : \A a \in AxisKeys :
        /\ (a[2] \in DOMAIN line_cfg0[n] /\ a[1] \notin DOMAIN line_cfg0[n]) =>
              /\ ReadsFor(n, a[1]) = {}
              /\ line_cfg[n][a[2]] = line_cfg0[n][a[2]]
              /\ ~(status.kind = "ValueError" /\ status.line = n /\ status.axis = a[1])
        /\ (a[1] \in DOMAIN line_cfg0[n] /\ (n < li \/ Resolved)) =>
              /\ ReadsFor(n, a[1]) # {}
              /\ line_cfg[n][a[2]] = <<"col", line_cfg0[n][a[1]][1], line_cfg0[n][a[1]][2]>>

C2_Witness ==
    /\ pc = "done"
    /\ \E n \in DOMAIN line_cfg0 :
          /\ "xdata_array" \in DOMAIN line_cfg0[n]
          /\ "xdata" \notin DOMAIN line_cfg0[n]
          /\ "ydata" \in DOMAIN line_cfg0[n]
          /\ "ydata_array" \in DOMAIN line_cfg0[n]
          /\ line_cfg[n]["xdata_array"] = UserArray
          /\ line_cfg[n]["ydata_array"] # UserArray

\* An axis of an entry as passed with neither a reference nor an array.
FaultyAxis(n, a) == a[1] \notin DOMAIN line_cfg0[n] /\ a[2] \notin DOMAIN line_cfg0[n]
HasFaulty == \E n \in DOMAIN line_cfg0 : \E a \in AxisKeys : FaultyAxis(n, a)

\* The place of an axis in the order of resolution: entries in order, x before y.
Pos(n, ref) == 2 * n + (IF ref = "ydata" THEN 1 ELSE 0)
FaultyPositions == {Pos(c[1], c[2][1]) : c \in {d \in (DOMAIN line_cfg0) \X AxisKeys : FaultyAxis(d[1], d[2])}}

NothingRendered ==
    /\ n_artists = 0
    /\ \A a \in DOMAIN axes : axes[a] = NewAxes
    /\ fig_legend = NoLegend
    /\ saved = <<>>
    /\ ~shown

\* C3 as stated: with a faulty entry anywhere the call renders nothing and
\* the error it ends with is the configuration error.
C3_AlwaysValueError ==
    HasFaulty =>
        /\ NothingRendered
        /\ pc \in {"call", "resolve", "failed"}
        /\ pc = "failed" => status.kind = "ValueError"

\* C3 amended: with a faulty entry anywhere the call never gets past the
\* resolution pass and renders nothing; it ends with the configuration error
\* raised at the first faulty axis, unless the read or the column lookup of
\* an axis resolved before that one failed first, whose error then ends it.
C3_FailsBeforeRendering ==
    HasFaulty =>
        /\ NothingRendered
        /\ pc \in {"call", "resolve", "failed"}
        /\ \A q \in FaultyPositions : Pos(li, "xdata") <= q
        /\ pc = "failed" =>
              \/ /\ status.kind = "ValueError"
                 /\ \A q \in FaultyPositions : Pos(status.line, status.axis) <= q
                 /\ Pos(status.line, status.axis) \in FaultyPositions
              \/ /\ status.kind \in {"FileNotFoundError", "KeyError"}
                 /\ \A q \in FaultyPositions : Pos(status.line, status.axis) < q

C3_Witness ==
    /\ pc = "failed"
    /\ status.kind = "ValueError"
    /\ status.line = 2
    /\ status.axis = "ydata"
    /\ Len(reads) >= 2
    /\ NothingRendered

\* A subplot whose rendering is over.
Rendered(p) == p < pi

\* C7: the legend shown on a subplot that has a 'legend' list holds exactly
\* the handles of the listed lines of that subplot, in the list's order.
C7_LegendExactlyListed ==
    \A p \in DOMAIN plot_cfg :
        (Rendered(p) /\ "legend" \in DOMAIN plot_cfg[p]) =>
            LET ids == plot_cfg[p]["legend"]
                lg == axes[p].legend
            IN  /\ lg.shown
                /\ Len(lg.handles) = Len(ids)
                /\ \A n \in 1..Len(ids) :
                      n <= Len(lg.handles) =>
                          /\ lg.handles[n].line_id = ids[n]
                          /\ lg.handles[n].plot = p

\* C9: a subplot has at most one secondary y-axis; every line with a
\* 'rightYAxis' label is on it and every other line is on the primary axis.
C9_OneSecondaryAxis ==
    \A a \in DOMAIN axes :
        /\ Len(axes[a].twins) <= 1
        /\ \A n \in DOMAIN axes[a].lines :
              ~Truthy(line_cfg[axes[a].lines[n].line_id], "rightYAxis")
        /\ \A t \in DOMAIN axes[a].twins : \A n \in DOMAIN axes[a].twins[t] :
              Truthy(line_cfg[axes[a].twins[t][n].line_id], "rightYAxis")

\* C8: the save step writes file_path + filename + '.' + fig_format
\* (defaults './', 'new_fig', 'png'), then file_path + filename + '.png' when
\* the format is not 'png', and nothing else; nothing is written before it.
C8_SavedFiles ==
    LET path == IF "file_path" \in DOMAIN fig_cfg THEN fig_cfg["file_path"] ELSE <<"./">>
        name == IF "filename" \in DOMAIN fig_cfg THEN fig_cfg["filename"] ELSE <<"new_fig">>
        format == IF "fig_format" \in DOMAIN fig_cfg THEN fig_cfg["fig_format"] ELSE <<"png">>
    IN  /\ pc # "done" => saved = <<>>
        /\ pc = "done" =>
              /\ saved[1] = path \o name \o <<".">> \o format
              /\ format = <<"png">> => Len(saved) = 1
              /\ format # <<"png">> => Len(saved) = 2 /\ saved[2] = path \o name \o <<".", "png">>
              /\ fig_cfg = ("fig_format" :> <<"pdf">>) =>
                    saved = << <<"./", "new_fig", ".", "pdf">>, <<"./", "new_fig", ".", "png">> >>
              /\ fig_cfg = ("fig_format" :> <<"png">>) =>
                    saved = << <<"./", "new_fig", ".", "png">> >>

C8_Witness ==
    /\ pc = "done"
    /\ fig_cfg = ("fig_format" :> <<"pdf">>)
    /\ saved = << <<"./", "new_fig", ".", "pdf">>, <<"./", "new_fig", ".", "png">> >>

----------------------------------------------------------------------------
\* combine_csv_files (src/manData.py 3-35)

\* A file is its text, a sequence of characters; a character is a pair, the
\* line terminator being NL.
NL == <<"\n", 0>>

RECURSIVE ReadLines(_)
\* line 28, f.readlines(): the text cut after every line terminator; the last
\* line has no terminator when the text does not end with one.
ReadLines(text) ==
    IF text = <<>> THEN <<>>
    ELSE LET ends == {n \in 1..Len(text) : text[n] = NL}
             cut == IF ends = {} THEN Len(text)
                    ELSE CHOOSE n \in ends : \A m \in ends : n <= m
         IN  <<SubSeq(text, 1, cut)>> \o ReadLines(SubSeq(text, cut + 1, Len(text)))

RECURSIVE Joined(_)
\* lines 33, 35, file.writelines(): the strings one after the other, nothing added
Joined(strings) ==
    IF strings = <<>> THEN <<>> ELSE Head(strings) \o Joined(Tail(strings))

\* A slice bound of Python, brought into 0..len.
SliceBound(n, len) ==
    IF n < 0 THEN (IF n + len < 0 THEN 0 ELSE n + len)
    ELSE IF n > len THEN len ELSE n

\* lines 33, 35: s[start:stop:step] for step >= 1, indices from 0
PySlice(s, start, stop, step) ==
    LET lo == SliceBound(start, Len(s))
        hi == SliceBound(stop, Len(s))
        count == IF hi > lo THEN (hi - lo + step - 1) \div step ELSE 0
    IN  [m \in 1..count |-> s[lo + (m - 1) * step + 1]]

\* lines 23-26
StepOf(csv_file) == IF Len(csv_file) = 4 THEN csv_file[4] ELSE 1

\* ClampEnd with an off-by-one in the last line's index.
ClampEndShort(lines, line_end) ==
    IF Len(lines) < line_end THEN Len(lines) - 2 ELSE line_end

\* lines 30-31
ClampEnd(lines, line_end) ==
    IF Len(lines) < line_end THEN Len(lines) - 1 ELSE line_end

\* lines 30-35: the lines handed to file.writelines
Selected(lines, line_start, line_end, line_step) ==
    LET end == ClampEnd(lines, line_end)
    IN  IF line_step > 1
        THEN PySlice(lines, line_start, end + 1, line_step)
        ELSE PySlice(lines, line_start, end + 1, 1)

\* RemoveDest that empties an existing destination and leaves it in place.
RemoveDestEmptied(files, dest) ==
    IF dest \in DOMAIN files
    THEN [f \in DOMAIN files |-> IF f = dest THEN <<>> ELSE files[f]]
    ELSE files

\* RemoveDest that leaves an existing destination in place.
RemoveDestNever(files, dest) == files

\* lines 17-18
RemoveDest(files, dest) ==
    IF dest \in DOMAIN files
    THEN [f \in DOMAIN files \ {dest} |-> files[f]]
    ELSE files

\* OnMissingSource that deletes the partial destination.
OnMissingSourceCleanup(files, dest) ==
    [f \in DOMAIN files \ {dest} |-> files[f]]

\* line 27: open() raises, nothing handles it, the files stay as they are
OnMissingSource(files, dest) == files

\* line 29, open(new_csv_file, 'a'), and the writelines: the destination is
\* created when it is not there, the text goes to its end.
AppendTo(files, dest, text) == Put(files, dest, Get(files, dest, <<>>) \o text)

\* What the specification says a range selects: the lines at the indices
\* start, start+step, ... up to min(end, total_lines-1), step 1 unless > 1.
SpecSelection(lines, start, end, step) ==
    LET total == Len(lines)
        stop == IF end < total - 1 THEN end ELSE total - 1
        by == IF step > 1 THEN step ELSE 1
        idx == {n \in 0..(total - 1) : n >= start /\ n <= stop /\ (n - start) % by = 0}
        nth[m \in 1..Cardinality(idx)] ==
            CHOOSE n \in idx : Cardinality({o \in idx : o < n}) = m - 1
    IN  [m \in 1..Cardinality(idx) |-> lines[nth[m] + 1]]

\* lines 17-18, the start of a call
Start ==
    /\ cpc = "call"
    /\ fs' = RemoveDest(fs, new_csv_file)
    /\ k' = 0
    /\ cpc' = IF n_ranges = 0 THEN "done" ELSE "loop"
    /\ UNCHANGED <<fs0, new_csv_file, cstatus, n_ranges, last, written, expected>>

CombPaths == {"a.csv", "b.csv", "out.csv"}

\* The range descriptors: (source, start, end) or (source, start, end, step).
\* The loop draws the next element of csv_files when it gets to it.
Descriptors ==
    {<<f, b, e>> : f \in CombPaths, b \in {0, 1}, e \in 0..(MaxLen + 1)}
    \cup {<<f, b, e, st>> : f \in CombPaths, b \in {0, 1}, e \in 0..(MaxLen + 1),
                           st \in {1, 2}}

\* lines 19-35, one iteration of the loop over csv_files
CopyRange ==
    /\ cpc = "loop"
    /\ k < n_ranges
    /\ \E csv_file \in Descriptors :
         LET csv_file_name == csv_file[1]
             line_start == csv_file[2]
             line_end == csv_file[3]
             line_step == StepOf(csv_file)
             this == [valid |-> TRUE, ok |-> FALSE, src |-> csv_file_name,
                      start |-> line_start, end |-> line_end, step |-> line_step,
                      lines |-> <<>>, chunk |-> <<>>]
         IN  IF csv_file_name \notin DOMAIN fs
             THEN /\ fs' = OnMissingSource(fs, new_csv_file)
                  /\ cpc' = "failed"
                  /\ cstatus' = "FileNotFoundError"
                  /\ last' = this
                  /\ UNCHANGED <<k, written, expected>>
             ELSE LET lines == ReadLines(fs[csv_file_name])
                      chunk == Selected(lines, line_start, line_end, line_step)
                  IN  /\ fs' = AppendTo(fs, new_csv_file, Joined(chunk))
                      /\ k' = k + 1
                      /\ cpc' = IF k + 1 = n_ranges THEN "done" ELSE "loop"
                      /\ last' = [this EXCEPT !.ok = TRUE, !.lines = lines, !.chunk = chunk]
                      /\ written' = written \o Joined(chunk)
                      /\ expected' = expected \o SpecSelection(lines, line_start, line_end, line_step)
                      /\ UNCHANGED cstatus
    /\ UNCHANGED <<fs0, new_csv_file, n_ranges>>

NextCombine ==
    \/ Start /\ UNCHANGED plotVars
    \/ CopyRange /\ UNCHANGED plotVars

\* The text of a file of n lines, the last one with or without its terminator.
Text(name, n, terminated) ==
    LET line(m) == IF m = n /\ ~terminated THEN <<<<name, m>>>> ELSE <<<<name, m>>, NL>>
    IN  Joined([m \in 1..n |-> line(m)])

SourceTexts(name) ==
    {Text(name, n, t) : n \in 0..MaxLen, t \in BOOLEAN}

PlotIdle ==
    /\ fig_cfg = EmptyDict
    /\ plot_cfg = <<>>
    /\ line_cfg = <<>>
    /\ line_cfg0 = <<>>
    /\ pc = "idle"
    /\ status = NoError
    /\ li = 1
    /\ nfiles = 0
    /\ data_files = EmptyDict
    /\ data_file_names = EmptyDict
    /\ reads = <<>>
    /\ axes = <<>>
    /\ handles = EmptyDict
    /\ pi = 1
    /\ lj = 1
    /\ n_artists = 0
    /\ fig_legend = NoLegend
    /\ saved = <<>>
    /\ shown = FALSE

InitCombine ==
    /\ new_csv_file = "out.csv"
    /\ \E a \in {EmptyDict} \cup {"a.csv" :> t : t \in SourceTexts("a")},
          o \in {EmptyDict, "out.csv" :> Text("o", 1, TRUE),
                 "out.csv" :> Text("a", MaxLen, TRUE)} :
          fs = a @@ ("b.csv" :> Text("b", MaxLen, TRUE)) @@ o
    /\ fs0 = fs
    /\ n_ranges \in 0..MaxRanges
    /\ cpc = "call"
    /\ cstatus = ""
    /\ k = 0
    /\ last = NoRange
    /\ written = <<>>
    /\ expected = <<>>
    /\ PlotIdle

SpecCombine == InitCombine /\ [][NextCombine]_vars

----------------------------------------------------------------------------
\* Properties of combine_csv_files

\* C4: a range whose end is at or past the number of lines of its source is
\* copied through the source's last line, as with end = total_lines - 1; the
\* only failure of a range is a source that does not exist.
C4_EndClamped ==
    /\ (last.valid /\ last.ok /\ last.end >= Len(last.lines)) =>
          last.chunk = SpecSelection(last.lines, last.start, Len(last.lines) - 1, last.step)
    /\ cpc = "failed" => (last.valid /\ ~last.ok /\ last.src \notin DOMAIN fs)

C4_Witness ==
    /\ last.valid /\ last.ok
    /\ Len(last.lines) = 2
    /\ last.end = 2
    /\ last.start = 0
    /\ last.step = 1
    /\ last.chunk = last.lines

\* C5: after a successful call the destination's lines are the lines the
\* ranges select, range after range.
C5_DestinationLines ==
    cpc = "done" => ReadLines(Get(fs, new_csv_file, <<>>)) = expected

\* C6: after a successful call the destination holds the text of the lines
\* its ranges select and nothing of what it held before the call.
C6_Overwrites ==
    cpc = "done" =>
        IF n_ranges = 0 THEN new_csv_file \notin DOMAIN fs
        ELSE new_csv_file \in DOMAIN fs /\ fs[new_csv_file] = Joined(expected)

\* The destination held, before the call, what the call writes.
C6_Witness ==
    /\ cpc = "done"
    /\ k = 2
    /\ new_csv_file \in DOMAIN fs0
    /\ fs0[new_csv_file] # <<>>
    /\ fs[new_csv_file] = fs0[new_csv_file]

\* C10: a call fails at the first range whose source does not exist, with a
\* not-found error and with the destination as the ranges before it left it:
\* absent when there is none (the one from before the call is gone), else
\* holding what they wrote; a range that was copied had its source.
C10_MissingSource ==
    /\ cpc = "failed" =>
          /\ cstatus = "FileNotFoundError"
          /\ last.valid /\ ~last.ok /\ last.src \notin DOMAIN fs
          /\ k < n_ranges
          /\ k = 0 => new_csv_file \notin DOMAIN fs
          /\ k > 0 => new_csv_file \in DOMAIN fs /\ fs[new_csv_file] = written
    /\ cpc # "failed" => cstatus = ""
    /\ (last.valid /\ last.ok) => last.src \in DOMAIN fs

C10_Witness ==
    /\ cpc = "failed"
    /\ k = 1
    /\ n_ranges = 2
    /\ new_csv_file \in DOMAIN fs0
    /\ written # <<>>
    /\ fs[new_csv_file] = written
    /\ fs[new_csv_file] # fs0[new_csv_file]

\* Every file other than the destination is, at every point of the call, as
\* it was before the call.
OtherSourcesUnchanged ==
    /\ DOMAIN fs \subseteq DOMAIN fs0 \cup {new_csv_file}
    /\ \A f \in DOMAIN fs0 \ {new_csv_file} :
          f \in DOMAIN fs /\ fs[f] = fs0[f]

\* The last range drawn names, as its source, a destination that existed
\* before the call.
DestIsSource ==
    /\ new_csv_file \in DOMAIN fs0
    /\ last.valid
    /\ last.src = new_csv_file

\* C11 as stated: every range whose source is the destination that existed
\* before the call fails at its open with a not-found error, and every
\* source other than the destination is unchanged.
C11_SelfSourceAlwaysFails ==
    /\ DestIsSource =>
          /\ ~last.ok
          /\ cpc = "failed"
          /\ cstatus = "FileNotFoundError"
    /\ OtherSourcesUnchanged

\* C11: the destination is removed before any source is opened. A range
\* whose source is the destination that existed before the call fails with a
\* not-found error exactly when no earlier range of the call was copied;
\* after an earlier copy its open succeeds and it reads what the call has
\* written so far. In both cases the destination's contents from before the
\* call are gone: it is absent or holds only what the call wrote. Every
\* source other than the destination is unchanged.
C11_DestinationRemovedFirst ==
    /\ (cpc # "call" /\ k = 0) => new_csv_file \notin DOMAIN fs
    /\ cpc # "call" =>
          \/ new_csv_file \notin DOMAIN fs
          \/ fs[new_csv_file] = written
    /\ (DestIsSource /\ ~last.ok) =>
          /\ k = 0
          /\ cpc = "failed"
          /\ cstatus = "FileNotFoundError"
          /\ new_csv_file \notin DOMAIN fs
    /\ (DestIsSource /\ last.ok) =>
          /\ k >= 2
          /\ \E n \in 0..Len(written) :
                /\ ReadLines(SubSeq(written, 1, n)) = last.lines
                /\ SubSeq(written, n + 1, Len(written)) = Joined(last.chunk)
    /\ OtherSourcesUnchanged

\* The first range names the existing destination: its open fails and the
\* destination's contents are gone, the other files being as they were.
C11_Witness ==
    /\ cpc = "failed"
    /\ k = 0
    /\ DestIsSource
    /\ ~last.ok
    /\ fs0[new_csv_file] # <<>>
    /\ new_csv_file \notin DOMAIN fs
    /\ "b.csv" \in DOMAIN fs

\* A later range names the existing destination after an earlier range was
\* copied: its open succeeds and it reads lines this call wrote.
C11_SelfSourceRead ==
    /\ DestIsSource
    /\ last.ok
    /\ last.chunk # <<>>
    /\ fs0[new_csv_file] # written

====
